---------------------------- MODULE Spec2Model ----------------------------
(***************************************************************************)
(* A model of the RAG ingestion tooling of RAG.MINEWISE:                   *)
(*   - process_documents.py   (extract, chunk, embed, store in Firestore)  *)
(*   - ingestion_pipeline.py  (load, split, embed, upsert into ChromaDB)   *)
(*   - sync_chromadb_to_firestore.py (ChromaDB -> Firestore reconciliation)*)
(* Strings are sequences of one-character strings.  Every call to an       *)
(* external service may fail; a failure is a nondeterministic choice.      *)
(***************************************************************************)
EXTENDS Integers, Sequences, FiniteSets, TLC

VARIABLES
    prog,           \* which program of the repository is running
    \* ---- process_documents.py ----
    gcs,            \* the bucket: gcs_path -> PDF
    pd_pc,          \* position in __main__ / process_document / store_in_firestore
    doc_idx,        \* index of the current entry of `documents`
    max_tokens,     \* argument of chunk_text_intelligent
    overlap_tokens, \* argument of chunk_text_intelligent
    text_items,     \* result of extract_text_from_pdf
    chunks,         \* result of chunk_text_intelligent
    emb_i,          \* loop variable i of the embedding loop (0-based offset)
    all_embeddings, \* accumulated embeddings
    store_i,        \* loop variable i of store_in_firestore (chunks handled)
    batch,          \* pending writes of the Firestore WriteBatch
    batch_count,    \* batch_count of store_in_firestore
    fs_meta,        \* Firestore: document name -> metadata record
    fs_chunks,      \* Firestore: document name -> (chunk key -> chunk data)
    commits,        \* history: index -> sizes of the commits of its store call
    committed,      \* history: index -> the writes of each commit of its store call
    attempted,      \* history: indices of documents whose processing started
    failed,         \* history: index -> stage at which the document failed
    succeeded,      \* history: indices of documents processed without error
    store_n,        \* history: index -> number of writes pending at the store call
    embed_err,      \* history: index -> offset of the batch whose embedding call raised
    \* ---- sync_chromadb_to_firestore.py ----
    env,            \* environment: project variables, ambient credentials and their project
    chroma,         \* the records of the ChromaDB collection, in the order of collection.get
    vc,             \* Firestore collection vectorChunks: document id -> fields
    sy_pc,          \* position in main / sync_chromadb_to_firestore
    sy_run,         \* number of the current run of the script
    project_id,     \* result of setup_google_cloud_authentication
    results,        \* result of collection.get(...)
    sy_i,           \* loop variable i of enumerate(zip(...), 1)
    firestore_doc,  \* [id, fields] prepared for the current record
    existing,       \* existing_doc.exists of the current record
    synced_count,
    skipped_count,
    exit_code,      \* process exit status (-1 while running)
    created,        \* history: document ids created in this run
    updated,        \* history: document ids updated in this run
    skipped,        \* history: loop positions skipped in this run
    tried,          \* history: loop positions whose processing started in this run
    vc0,            \* history: vectorChunks as it was when this run started
    prev,           \* history: summaries of the earlier runs
    calls           \* history: the steps of this run, [op, pos, ok, exists]

procVars == <<gcs, pd_pc, doc_idx, max_tokens, overlap_tokens,
              text_items, chunks, emb_i,
              all_embeddings, store_i, batch, batch_count, fs_meta, fs_chunks,
              commits, committed, attempted, failed, succeeded, store_n, embed_err>>

syncVars == <<env, chroma, vc, sy_pc, sy_run, project_id, results, sy_i,
              firestore_doc, existing, synced_count, skipped_count, exit_code,
              created, updated, skipped, tried, vc0, prev, calls>>

\* ingestion_pipeline.py: the bucket, the ChromaDB collection pdf_documents,
\* the position of main and of ingest_pdf_to_vectorstore, their locals, and
\* the history of the run
VARIABLES bucket, pdf_documents, in_pc, in_run, pdf_files, in_idx, in_chunks,
          in_embeddings, total_chunks, in_exit, in_attempted, in_failed,
          in_embed_err, in_upserts, in_prev

ingestVars == <<bucket, pdf_documents, in_pc, in_run, pdf_files, in_idx,
                in_chunks, in_embeddings, total_chunks, in_exit, in_attempted,
                in_failed, in_embed_err, in_upserts, in_prev>>

vars == <<prog, procVars, syncVars, ingestVars>>

---------------------------------------------------------------------------
(* Bounds of the model *)
MaxFullBatches == 2     \* documents of up to MaxFullBatches*500 + 1 chunks
MaxEmbedBatches == 2    \* documents of up to MaxEmbedBatches*20 + 1 chunks
MaxLen == 6             \* longest arbitrary page text given to the chunker alone
MaxSentences == 5       \* most sentences of a composed page text
MaxTok == 2             \* largest max_tokens given to the chunker alone
MaxRecords == 3         \* most records of the ChromaDB collection
MaxRuns == 2            \* runs of the sync script in a row

(* Program constants *)
BatchLimit == 500
EmbedBatchSize == 20
DefaultMaxTokens == 500
DefaultOverlapTokens == 50

Min(S) == CHOOSE x \in S : \A y \in S : x <= y
Max(S) == CHOOSE x \in S : \A y \in S : x >= y

---------------------------------------------------------------------------
(* Python string operations used by the code *)

\* str.strip(): leading and trailing whitespace removed
Strip(s) ==
    LET ns == {i \in 1..Len(s) : s[i] # " "}
    IN IF ns = {} THEN <<>> ELSE SubSeq(s, Min(ns), Max(ns))

\* len(str.split()): number of whitespace-delimited words
WordCount(s) ==
    Cardinality({i \in 1..Len(s) : s[i] # " " /\ (i = 1 \/ s[i-1] = " ")})

\* str.split('. '): non-overlapping matches, left to right; never empty
RECURSIVE SplitSentences(_)
SplitSentences(s) ==
    LET at == {i \in 1..(Len(s) - 1) : s[i] = "." /\ s[i+1] = " "}
    IN IF at = {} THEN <<s>>
       ELSE <<SubSeq(s, 1, Min(at) - 1)>>
            \o SplitSentences(SubSeq(s, Min(at) + 2, Len(s)))

\* '. '.join(parts)
RECURSIVE JoinSentences(_)
JoinSentences(parts) ==
    IF Len(parts) = 0 THEN <<>>
    ELSE IF Len(parts) = 1 THEN parts[1]
    ELSE parts[1] \o <<".", " ">> \o JoinSentences(Tail(parts))

\* a variant that keeps three parts: parts[-3:]
LastThree(parts) ==
    IF Len(parts) <= 3 THEN parts ELSE SubSeq(parts, Len(parts) - 2, Len(parts))

\* parts[-2:]
LastTwo(parts) ==
    IF Len(parts) <= 2 THEN parts ELSE SubSeq(parts, Len(parts) - 1, Len(parts))

---------------------------------------------------------------------------
(* chunk_text_intelligent *)

\* the chunk record appended to `chunks`
MakeChunk(current_chunk, current_tokens, item) ==
    [text |-> Strip(current_chunk), page |-> item.page,
     tokens |-> current_tokens, metadata |-> item.metadata]

\* a variant that carries only the last sentence over
OverlapTextOne(current_chunk) ==
    SplitSentences(current_chunk)[Len(SplitSentences(current_chunk))]

\* the overlap carried into the next window
OverlapText(current_chunk) == JoinSentences(LastTwo(SplitSentences(current_chunk)))

\* the condition that closes the current window
WindowOverflows(current_tokens, sentence_tokens, current_chunk, maxTokens) ==
    current_tokens + sentence_tokens > maxTokens /\ current_chunk # <<>>

\* one iteration of `for sentence in sentences`; w = [cur, tok, out]
ChunkSentence(w, sentence, item, maxTokens) ==
    LET sentence_tokens == WordCount(sentence)
    IN IF WindowOverflows(w.tok, sentence_tokens, w.cur, maxTokens)
       THEN LET next == OverlapText(w.cur) \o <<".", " ">> \o sentence
            IN [cur |-> next, tok |-> WordCount(next),
                out |-> Append(w.out, MakeChunk(w.cur, w.tok, item))]
       ELSE [cur |-> IF w.cur # <<>> THEN w.cur \o <<".", " ">> \o sentence
                     ELSE sentence,
             tok |-> w.tok + sentence_tokens,
             out |-> w.out]

\* the sentence loop over sentences[k..]
RECURSIVE ChunkLoop(_, _, _, _, _)
ChunkLoop(w, sentences, k, item, maxTokens) ==
    IF k > Len(sentences) THEN w
    ELSE ChunkLoop(ChunkSentence(w, sentences[k], item, maxTokens),
                   sentences, k + 1, item, maxTokens)

\* the body of `for item in text_items`: the chunks one item adds
ChunkItemChunks(item, maxTokens) ==
    LET w == ChunkLoop([cur |-> <<>>, tok |-> 0, out |-> <<>>],
                       SplitSentences(item.text), 1, item, maxTokens)
    IN IF Strip(w.cur) # <<>>
       THEN Append(w.out, MakeChunk(w.cur, w.tok, item))
       ELSE w.out

\* f[lo] \o ... \o f[hi]
RECURSIVE ConcatRange(_, _, _)
ConcatRange(f, lo, hi) ==
    IF lo > hi THEN <<>>
    ELSE IF lo = hi THEN f[lo]
    ELSE ConcatRange(f, lo, (lo + hi) \div 2)
         \o ConcatRange(f, (lo + hi) \div 2 + 1, hi)

\* chunk_text_intelligent(text_items, max_tokens, overlap_tokens); the
\* code never reads overlap_tokens
chunk_text_intelligent(items, maxTokens, overlapTokens) ==
    ConcatRange([i \in 1..Len(items) |-> ChunkItemChunks(items[i], maxTokens)],
                1, Len(items))

---------------------------------------------------------------------------
(* process_documents.py: inputs *)

\* the `documents` list of __main__
documents ==
    << [gcs_path |-> "frameworks/iso27001.pdf", collection |-> "frameworks",
        name |-> "iso27001"],
       [gcs_path |-> "frameworks/nist.pdf", collection |-> "frameworks",
        name |-> "nist"] >>

DocNames == {documents[k].name : k \in 1..Len(documents)}

\* a distinct one-word text for page i (binary numeral in the letters a, b)
RECURSIVE Word(_)
Word(i) ==
    IF i <= 2 THEN << IF i = 1 THEN "a" ELSE "b" >>
    ELSE Word((i - 1) \div 2) \o << IF i % 2 = 1 THEN "a" ELSE "b" >>

\* what page.extract_text() returns for page i of a PDF
\* pdf = [pages |-> number of pages, blank |-> pages without text]
RawPageText(pdf, i) ==
    IF i \in pdf.blank THEN <<" ">> ELSE <<" ">> \o Word(i)

BigPageCounts ==
    {k * BatchLimit + d : k \in 1..MaxFullBatches, d \in {-1, 0, 1}}
SmallPageCounts ==
    {n \in {k * EmbedBatchSize + d : k \in 0..MaxEmbedBatches, d \in {-1, 0, 1}} :
        n >= 0}

BigPdfs == {[pages |-> n, blank |-> {}] : n \in BigPageCounts}
SmallPdfs ==
    {[pages |-> n, blank |-> {}] : n \in SmallPageCounts}
    \cup {[pages |-> n, blank |-> {1}] : n \in SmallPageCounts \ {0}}

\* the buckets the runs start from (gcs_path -> PDF, a missing blob is not in
\* the domain): one large document, or any of two small ones
Buckets ==
    {[p \in {documents[1].gcs_path} |-> b] : b \in BigPdfs}
    \cup {[p \in {documents[k].gcs_path} |-> b] : k \in 1..2, b \in SmallPdfs}
    \cup {[p \in {documents[1].gcs_path, documents[2].gcs_path} |->
              IF p = documents[1].gcs_path THEN b1 ELSE b2] :
              b1 \in SmallPdfs, b2 \in SmallPdfs}
    \cup {[p \in {} |-> 0]}

---------------------------------------------------------------------------
(* extract_text_from_pdf *)

TextItemOf(pdf, i) ==
    [text |-> Strip(RawPageText(pdf, i)), page |-> i,
     metadata |-> [page_number |-> i, total_pages |-> pdf.pages]]

extract_text_from_pdf(pdf) ==
    LET all == [i \in 1..pdf.pages |-> TextItemOf(pdf, i)]
        HasText(it) == it.text # <<>>
    IN SelectSeq(all, HasText)

---------------------------------------------------------------------------
(* generate_embeddings: the embedding service maps each text to its vector *)

RECURSIVE TextCode(_)
TextCode(t) ==
    IF Len(t) = 0 THEN 0
    ELSE 5 * TextCode(SubSeq(t, 1, Len(t) - 1))
         + (CASE t[Len(t)] = "a" -> 1 [] t[Len(t)] = "b" -> 2
              [] t[Len(t)] = "." -> 3 [] OTHER -> 4)

EmbeddingOf(t) == <<TextCode(t), Len(t)>>

\* model.get_embeddings(texts) and the list comprehension over its result
get_embeddings(texts) == [j \in 1..Len(texts) |-> EmbeddingOf(texts[j])]

\* a variant whose except clause returns an empty list instead of re-raising
generate_embeddings_swallow(texts, ok) ==
    [raised |-> FALSE, value |-> IF ok THEN get_embeddings(texts) ELSE <<>>]

\* generate_embeddings: ok = the service call succeeded
generate_embeddings(texts, ok) ==
    IF ok THEN [raised |-> FALSE, value |-> get_embeddings(texts)]
    ELSE [raised |-> TRUE, value |-> <<>>]

\* chunks[i:i + batch_size], i 0-based
BatchSlice(cs, i) ==
    SubSeq(cs, i + 1, IF i + EmbedBatchSize < Len(cs) THEN i + EmbedBatchSize
                      ELSE Len(cs))

BatchTexts(batch_chunks) == [j \in 1..Len(batch_chunks) |-> batch_chunks[j].text]

\* a variant that puts the new batch in front
ExtendEmbeddingsFront(all, batch_embeddings) == batch_embeddings \o all

\* all_embeddings.extend(batch_embeddings)
ExtendEmbeddings(all, batch_embeddings) == all \o batch_embeddings

---------------------------------------------------------------------------
(* store_in_firestore *)

\* the decimal digits of n
RECURSIVE Digits(_)
Digits(n) == IF n < 10 THEN <<n>> ELSE Append(Digits(n \div 10), n % 10)

\* f"chunk_{i}": a key without zero padding
ChunkKeyUnpadded(i) == <<"chunk_">> \o Digits(i)

\* f"chunk_{i:04d}"
ChunkKey(i) ==
    LET d == Digits(i)
    IN <<"chunk_">> \o [j \in 1..(IF Len(d) < 4 THEN 4 - Len(d) ELSE 0) |-> 0] \o d

\* chunk_data for 0-based index i
ChunkData(i, chunk, embedding) ==
    [text |-> chunk.text, page |-> chunk.page, chunk_index |-> i,
     tokens |-> chunk.tokens, embedding |-> embedding,
     metadata |-> chunk.metadata]

DocMetadata(document_name, cs) ==
    [name |-> document_name, total_chunks |-> Len(cs), status |-> "processed"]

\* len(list(zip(chunks, embeddings)))
ZipLen(cs, es) == IF Len(cs) < Len(es) THEN Len(cs) ELSE Len(es)

\* a variant that commits one write late
BatchFullLate(count) == count > BatchLimit

\* `if batch_count >= 500`
BatchFull(count) == count >= BatchLimit

\* the document key and the chunk index of each write of a batch, in the
\* order of the batch.set calls
KeysOf(writes) ==
    [j \in 1..Len(writes) |->
        [key |-> writes[j].key, chunk_index |-> writes[j].data.chunk_index]]

\* batch.commit(): all pending writes applied to the chunks subcollection
ApplyBatch(stored, writes) ==
    [k \in DOMAIN stored \cup {writes[j].key : j \in 1..Len(writes)} |->
        IF \E j \in 1..Len(writes) : writes[j].key = k
        THEN writes[Max({j \in 1..Len(writes) : writes[j].key = k})].data
        ELSE stored[k]]

\* a variant in which a failed commit removes the records written before
CommitFailedRollback(stored) == <<>>

\* a batch.commit() that raises: none of its pending writes is applied, and
\* store_in_firestore has no handler that would undo the earlier commits
CommitFailed(stored) == stored

---------------------------------------------------------------------------
(* the variables of a program that is not running *)

NoEnv == [GOOGLE_CLOUD_PROJECT |-> "", GCP_PROJECT_ID |-> "",
          adc_ok |-> FALSE, adc_project |-> ""]
NoFirestoreDoc == [id |-> <<>>, fields |-> <<>>]

SyncIdle ==
    /\ env = NoEnv /\ chroma = <<>> /\ vc = <<>> /\ sy_pc = "idle" /\ sy_run = 0
    /\ project_id = "" /\ results = <<>> /\ sy_i = 0
    /\ firestore_doc = NoFirestoreDoc /\ existing = FALSE
    /\ synced_count = 0 /\ skipped_count = 0 /\ exit_code = -1
    /\ created = {} /\ updated = {} /\ skipped = {} /\ tried = {}
    /\ vc0 = <<>> /\ prev = <<>> /\ calls = <<>>

IngestIdle ==
    /\ bucket = <<>> /\ pdf_documents = <<>> /\ in_pc = "idle" /\ in_run = 0
    /\ pdf_files = <<>> /\ in_idx = 0 /\ in_chunks = <<>>
    /\ in_embeddings = <<>> /\ total_chunks = 0 /\ in_exit = -1
    /\ in_attempted = {} /\ in_failed = <<>> /\ in_embed_err = {}
    /\ in_upserts = <<>> /\ in_prev = <<>>

ProcIdle ==
    /\ gcs = <<>> /\ pd_pc = "idle" /\ doc_idx = 1
    /\ max_tokens = DefaultMaxTokens /\ overlap_tokens = DefaultOverlapTokens
    /\ text_items = <<>> /\ chunks = <<>> /\ emb_i = 0
    /\ all_embeddings = <<>> /\ store_i = 0 /\ batch = <<>> /\ batch_count = 0
    /\ fs_meta = <<>>
    /\ fs_chunks = <<>>
    /\ commits = <<>> /\ committed = <<>> /\ attempted = {} /\ failed = <<>> /\ succeeded = {}
    /\ store_n = <<>> /\ embed_err = <<>>

---------------------------------------------------------------------------
(* process_documents.py: the program *)

\* locals of process_document die when it returns or raises
ResetLocals ==
    /\ text_items' = <<>> /\ chunks' = <<>> /\ emb_i' = 0
    /\ all_embeddings' = <<>> /\ store_i' = 0 /\ batch' = <<>>
    /\ batch_count' = 0 /\ max_tokens' = DefaultMaxTokens

\* the position if the except clause ended the script
ExceptTargetExit == "exit"

\* where __main__ continues after `except Exception` printed the error
ExceptTarget == "main"

\* an exception leaves process_document and is caught by the loop of __main__
Raise(stage) ==
    /\ failed' = (doc_idx :> stage) @@ failed
    /\ pd_pc' = ExceptTarget
    /\ doc_idx' = doc_idx + 1
    /\ ResetLocals

CurDoc == documents[doc_idx]

\* `for doc in documents: try: process_document(...)`
BeginDocument ==
    /\ prog = "process_documents" /\ pd_pc = "main"
    /\ doc_idx <= Len(documents)
    /\ pd_pc' = "download"
    /\ attempted' = attempted \cup {doc_idx}
    /\ UNCHANGED <<prog, syncVars, ingestVars, overlap_tokens, embed_err, gcs, doc_idx, max_tokens, text_items, chunks,
                   emb_i, all_embeddings, store_i, batch, batch_count, fs_meta,
                   fs_chunks, commits, committed, failed, succeeded, store_n>>

\* the loop of __main__ is exhausted: the script ends
MainExit ==
    /\ prog = "process_documents" /\ pd_pc = "main"
    /\ doc_idx > Len(documents)
    /\ pd_pc' = "exit"
    /\ UNCHANGED <<prog, syncVars, ingestVars, overlap_tokens, embed_err, gcs, doc_idx, max_tokens, text_items, chunks,
                   emb_i, all_embeddings, store_i, batch, batch_count, fs_meta,
                   fs_chunks, commits, committed, attempted, failed, succeeded, store_n>>

\* blob.download_as_bytes()
Download ==
    /\ prog = "process_documents" /\ pd_pc = "download"
    /\ \E ok \in BOOLEAN :
         IF ok /\ CurDoc.gcs_path \in DOMAIN gcs
         THEN /\ pd_pc' = "extract"
              /\ UNCHANGED <<doc_idx, max_tokens, text_items, chunks,
                             emb_i, all_embeddings, store_i, batch, batch_count,
                             failed>>
         ELSE Raise("download")
    /\ UNCHANGED <<prog, syncVars, ingestVars, overlap_tokens, embed_err, gcs, fs_meta, fs_chunks, commits, committed, attempted, succeeded,
                   store_n>>

\* text_items = extract_text_from_pdf(pdf_bytes), then the call of
\* chunk_text_intelligent(text_items, max_tokens=500, overlap_tokens=50)
Extract ==
    /\ prog = "process_documents" /\ pd_pc = "extract"
    /\ \E ok \in BOOLEAN :
         IF ok
         THEN /\ text_items' = extract_text_from_pdf(gcs[CurDoc.gcs_path])
              /\ pd_pc' = "chunk"
              /\ max_tokens' = DefaultMaxTokens
              /\ chunks' = <<>>
              /\ UNCHANGED <<doc_idx, emb_i, all_embeddings, store_i, batch,
                             batch_count, failed>>
         ELSE Raise("extract")
    /\ UNCHANGED <<prog, syncVars, ingestVars, overlap_tokens, embed_err, gcs, fs_meta, fs_chunks, commits, committed, attempted, succeeded,
                   store_n>>

\* chunks = chunk_text_intelligent(text_items, max_tokens=500, ...)
Chunk ==
    /\ prog = "process_documents" /\ pd_pc = "chunk"
    /\ chunks' = chunk_text_intelligent(text_items, max_tokens, overlap_tokens)
    /\ pd_pc' = "embed"
    /\ emb_i' = 0
    /\ all_embeddings' = <<>>
    /\ UNCHANGED <<prog, syncVars, ingestVars, overlap_tokens, embed_err, gcs, doc_idx, max_tokens, text_items,
                   store_i, batch, batch_count, fs_meta, fs_chunks, commits, committed,
                   attempted, failed, succeeded, store_n>>

\* one iteration of `for i in range(0, len(chunks), batch_size)`
EmbedBatch ==
    /\ prog = "process_documents" /\ pd_pc = "embed"
    /\ emb_i < Len(chunks)
    /\ \E ok \in BOOLEAN :
         LET r == generate_embeddings(BatchTexts(BatchSlice(chunks, emb_i)), ok)
         IN /\ embed_err' = IF ok THEN embed_err
                            ELSE (doc_idx :> emb_i) @@ embed_err
            /\ IF r.raised
               THEN Raise("embed")
               ELSE /\ all_embeddings' = ExtendEmbeddings(all_embeddings, r.value)
                    /\ emb_i' = emb_i + EmbedBatchSize
                    /\ UNCHANGED <<pd_pc, doc_idx, max_tokens, text_items,
                                   chunks, store_i, batch, batch_count, failed>>
    /\ UNCHANGED <<prog, syncVars, ingestVars, overlap_tokens, gcs, fs_meta, fs_chunks, commits, committed, attempted, succeeded,
                   store_n>>

\* the embedding loop is over: store_in_firestore(collection, name, chunks,
\* all_embeddings) is called
StoreCall ==
    /\ prog = "process_documents" /\ pd_pc = "embed"
    /\ emb_i >= Len(chunks)
    /\ pd_pc' = "store_meta"
    /\ store_n' = (doc_idx :> ZipLen(chunks, all_embeddings)) @@ store_n
    /\ commits' = (doc_idx :> <<>>) @@ commits
    /\ committed' = (doc_idx :> <<>>) @@ committed
    /\ UNCHANGED <<prog, syncVars, ingestVars, overlap_tokens, embed_err, gcs, doc_idx, max_tokens, text_items, chunks,
                   emb_i, all_embeddings, store_i, batch, batch_count, fs_meta,
                   fs_chunks, attempted, failed, succeeded>>

\* doc_ref.set({...}); batch = firestore_client.batch(); batch_count = 0
StoreMeta ==
    /\ prog = "process_documents" /\ pd_pc = "store_meta"
    /\ \E ok \in BOOLEAN :
         IF ok
         THEN /\ fs_meta' = (CurDoc.name :> DocMetadata(CurDoc.name, chunks))
                             @@ fs_meta
              /\ pd_pc' = "store_loop"
              /\ store_i' = 0
              /\ batch' = <<>>
              /\ batch_count' = 0
              /\ UNCHANGED <<doc_idx, max_tokens, text_items, chunks,
                             emb_i, all_embeddings, failed>>
         ELSE /\ Raise("store_meta")
              /\ UNCHANGED fs_meta
    /\ UNCHANGED <<prog, syncVars, ingestVars, overlap_tokens, embed_err, gcs, fs_chunks, commits, committed, attempted, succeeded, store_n>>

\* batch.set(chunk_doc, chunk_data) of the iteration with 0-based index i
BatchWrite(i) ==
    [key |-> ChunkKey(i),
     data |-> ChunkData(i, chunks[i + 1], all_embeddings[i + 1])]

\* the iterations of `for i, (chunk, embedding) in enumerate(zip(...))` from
\* store_i up to and including the next batch.commit(), or to the end of the
\* loop when the batch does not fill up
StoreLoop ==
    /\ prog = "process_documents" /\ pd_pc = "store_loop"
    /\ store_i < ZipLen(chunks, all_embeddings)
    /\ LET rest == ZipLen(chunks, all_embeddings) - store_i
           full == {k \in 1..rest : BatchFull(batch_count + k)}
           k == IF full = {} THEN rest ELSE Min(full)
           pending == batch \o [j \in 1..k |-> BatchWrite(store_i + j - 1)]
       IN IF full # {}
          THEN \E ok \in BOOLEAN :
                 IF ok
                 THEN /\ fs_chunks' = [fs_chunks EXCEPT ![CurDoc.name] =
                                          ApplyBatch(@, pending)]
                      /\ commits' = [commits EXCEPT ![doc_idx] =
                                        Append(@, Len(pending))]
                      /\ committed' = [committed EXCEPT ![doc_idx] =
                                          Append(@, KeysOf(pending))]
                      /\ batch' = <<>>
                      /\ batch_count' = 0
                      /\ store_i' = store_i + k
                      /\ UNCHANGED <<pd_pc, doc_idx, max_tokens, text_items, chunks, emb_i, all_embeddings,
                                     failed>>
                 ELSE /\ Raise("commit")
                      /\ fs_chunks' = [fs_chunks EXCEPT ![CurDoc.name] =
                                          CommitFailed(@)]
                      /\ UNCHANGED <<commits, committed>>
          ELSE /\ batch' = pending
               /\ batch_count' = batch_count + k
               /\ store_i' = store_i + k
               /\ UNCHANGED <<pd_pc, doc_idx, max_tokens, text_items, chunks, emb_i, all_embeddings, failed, fs_chunks,
                              commits, committed>>
    /\ UNCHANGED <<prog, syncVars, ingestVars, overlap_tokens, embed_err, gcs, fs_meta, attempted, succeeded, store_n>>

\* `if batch_count > 0: batch.commit()`, then store_in_firestore returns
StoreFinal ==
    /\ prog = "process_documents" /\ pd_pc = "store_loop"
    /\ store_i = ZipLen(chunks, all_embeddings)
    /\ IF batch_count > 0
       THEN \E ok \in BOOLEAN :
              IF ok
              THEN /\ fs_chunks' = [fs_chunks EXCEPT ![CurDoc.name] =
                                       ApplyBatch(@, batch)]
                   /\ commits' = [commits EXCEPT ![doc_idx] =
                                     Append(@, Len(batch))]
                   /\ committed' = [committed EXCEPT ![doc_idx] =
                                       Append(@, KeysOf(batch))]
                   /\ pd_pc' = "stored"
                   /\ UNCHANGED <<doc_idx, max_tokens, text_items, chunks, emb_i, all_embeddings, store_i, batch,
                                  batch_count, failed>>
              ELSE /\ Raise("commit")
                   /\ fs_chunks' = [fs_chunks EXCEPT ![CurDoc.name] =
                                       CommitFailed(@)]
                   /\ UNCHANGED <<commits, committed>>
       ELSE /\ pd_pc' = "stored"
            /\ UNCHANGED <<doc_idx, max_tokens, text_items, chunks,
                           emb_i, all_embeddings, store_i, batch, batch_count,
                           failed, fs_chunks, commits, committed>>
    /\ UNCHANGED <<prog, syncVars, ingestVars, overlap_tokens, embed_err, gcs, fs_meta, attempted, succeeded, store_n>>

\* process_document prints its success line and returns to the loop
ProcessReturn ==
    /\ prog = "process_documents" /\ pd_pc = "stored"
    /\ succeeded' = succeeded \cup {doc_idx}
    /\ pd_pc' = "main"
    /\ doc_idx' = doc_idx + 1
    /\ ResetLocals
    /\ UNCHANGED <<prog, syncVars, ingestVars, overlap_tokens, embed_err, gcs, fs_meta, fs_chunks, commits, committed, attempted, failed,
                   store_n>>

ProcInit ==
    /\ prog = "process_documents"
    /\ gcs \in Buckets
    /\ pd_pc = "main"
    /\ doc_idx = 1
    /\ max_tokens = DefaultMaxTokens /\ overlap_tokens = DefaultOverlapTokens
    /\ text_items = <<>> /\ chunks = <<>> /\ emb_i = 0
    /\ all_embeddings = <<>> /\ store_i = 0 /\ batch = <<>> /\ batch_count = 0
    /\ fs_meta = <<>>
    /\ fs_chunks = [n \in DocNames |-> <<>>]
    /\ commits = <<>> /\ committed = <<>> /\ attempted = {} /\ failed = <<>> /\ succeeded = {}
    /\ store_n = <<>> /\ embed_err = <<>>
    /\ SyncIdle
    /\ IngestIdle

ProcNext ==
    \/ BeginDocument \/ MainExit \/ Download \/ Extract \/ Chunk
    \/ EmbedBatch \/ StoreCall \/ StoreMeta \/ StoreLoop \/ StoreFinal
    \/ ProcessReturn

Init == ProcInit
Next == ProcNext
Spec == Init /\ [][Next]_vars

---------------------------------------------------------------------------
(* chunk_text_intelligent called on its own *)

Alphabet == {"a", ".", " "}

StringsUpTo(n) == UNION {[1..k -> Alphabet] : k \in 0..n}

PageItem(t, p, n) ==
    [text |-> t, page |-> p, metadata |-> [page_number |-> p, total_pages |-> n]]

\* sentences a page text is composed of
SentencePool == {<<"a">>, <<"a", " ", "a">>, <<>>, <<"a", " ">>, <<" ">>}

\* page texts: every string of up to MaxLen characters, and every text of
\* up to MaxSentences pool sentences joined by '. '
PageTexts ==
    StringsUpTo(MaxLen)
    \cup {JoinSentences(q) : q \in UNION {[1..k -> SentencePool] : k \in 1..MaxSentences}}

\* the text_items given to the chunker: one page, or two pages of up to
\* MaxLen - 1 characters together
ChunkerInputs ==
    {<<PageItem(t, 1, 1)>> : t \in PageTexts}
    \cup UNION {{<<PageItem(SubSeq(t, 1, k), 1, 2),
                      PageItem(SubSeq(t, k + 1, Len(t)), 2, 2)>> : k \in 0..Len(t)} :
                  t \in StringsUpTo(MaxLen - 1)}

ChunkInit ==
    /\ prog = "chunker"
    /\ text_items \in ChunkerInputs
    /\ max_tokens \in 1..MaxTok
    /\ overlap_tokens \in {0, MaxTok + 1}
    /\ pd_pc = "chunk"
    /\ gcs = <<>> /\ doc_idx = 1
    /\ chunks = <<>> /\ emb_i = 0
    /\ all_embeddings = <<>> /\ store_i = 0 /\ batch = <<>> /\ batch_count = 0
    /\ fs_meta = <<>>
    /\ fs_chunks = [n \in DocNames |-> <<>>]
    /\ commits = <<>> /\ committed = <<>> /\ attempted = {} /\ failed = <<>> /\ succeeded = {}
    /\ store_n = <<>> /\ embed_err = <<>>
    /\ SyncIdle
    /\ IngestIdle

\* chunk_text_intelligent(text_items, max_tokens) runs and returns
ChunkCall ==
    /\ prog = "chunker" /\ pd_pc = "chunk"
    /\ chunks' = chunk_text_intelligent(text_items, max_tokens, overlap_tokens)
    /\ pd_pc' = "returned"
    /\ UNCHANGED <<prog, syncVars, ingestVars, overlap_tokens, embed_err, gcs, doc_idx, max_tokens, text_items, emb_i,
                   all_embeddings, store_i, batch, batch_count, fs_meta,
                   fs_chunks, commits, committed, attempted, failed, succeeded, store_n>>

ChunkNext == ChunkCall

SpecChunk == ChunkInit /\ [][ChunkNext]_vars

---------------------------------------------------------------------------
(* ingestion_pipeline.py: inputs *)

\* blob names, as Path sees them: directory, stem and suffix of the last part
BlobA == [dir |-> "a", stem |-> "x", suffix |-> ".pdf"]
BlobB == [dir |-> "b", stem |-> "x", suffix |-> ".pdf"]
BlobC == [dir |-> "b", stem |-> "y", suffix |-> ".PDF"]
BlobD == [dir |-> "b", stem |-> "z", suffix |-> ".txt"]

\* the blob names in the order of sorted()
BlobPool == <<BlobA, BlobB, BlobC, BlobD>>

\* what PyPDFLoader reads from a file: its pages, each page a sequence of
\* text blocks of at most chunk_size characters
GoodContent(name) ==
    CASE name = BlobA -> << <<"a0">>, <<"a1", "a2">> >>
      [] name = BlobB -> << <<"b0", "b1">> >>
      [] OTHER -> << <<"c0">> >>

\* a file without pages, a file whose only page has no text
NoPages == <<>>
BlankPage == << <<>> >>
BadContent(name) == IF name = BlobB THEN BlankPage ELSE NoPages

\* a later upload of the same blob with less text
ShorterContent == << <<"s0">> >>

BlobSets ==
    { {}, {BlobA}, {BlobA, BlobB}, {BlobA, BlobB, BlobC, BlobD},
      {BlobC, BlobD}, {BlobD} }

\* the buckets a run can start from: at most one blob is unreadable or blank
IngestBuckets ==
    UNION { {[n \in D |-> IF n = bad THEN BadContent(n) ELSE GoodContent(n)] :
                bad \in D \cup {BlobD}} : D \in BlobSets }

\* the buckets after one re-upload into bucket b
Reuploads(b) ==
    {[b EXCEPT ![n] = ShorterContent] : n \in DOMAIN b \ {BlobD}}

---------------------------------------------------------------------------
(* ingestion_pipeline.py: functions *)

\* blob.name
BlobName(name) == name.dir \o "/" \o name.stem \o name.suffix

\* blob.name.lower().endswith('.pdf')
IsPdf(name) == name.suffix \in {".pdf", ".PDF"}

\* Path(gcs_blob_name).stem
Stem(name) == name.stem

\* os.path.basename(gcs_blob_name)
Basename(name) == name.stem \o name.suffix

\* list_pdfs_in_bucket: sorted names of the PDF blobs
list_pdfs_in_bucket(b) ==
    LET Listed(n) == n \in DOMAIN b /\ IsPdf(n)
    IN SelectSeq(BlobPool, Listed)

\* text_splitter.split_documents(documents): the chunks of page p (0-based
\* in the metadata of PyPDFLoader), page after page
PageSplit(docs, p) ==
    [j \in 1..Len(docs[p]) |-> [page_content |-> docs[p][j], page |-> p - 1]]

split_documents(docs) ==
    ConcatRange([p \in 1..Len(docs) |-> PageSplit(docs, p)], 1, Len(docs))

\* embeddings_model.embed_documents(chunk_texts)
embed_documents(chunk_texts) ==
    [j \in 1..Len(chunk_texts) |-> <<"vector", chunk_texts[j]>>]

\* a chunk id that also depends on the run
ChunkIdPerRun(i, doc_name) == <<"chunk_", i, "_", doc_name, in_run>>

\* f"chunk_{i}_{doc_name}"
ChunkId(i, doc_name) == <<"chunk_", i, "_", doc_name>>

\* the metadata dict of chunk i (0-based)
ChunkMetadata(name, i, chunk) ==
    [source |-> "gs://minewise-bucket/" \o BlobName(name),
     gcs_uri |-> "gs://minewise-bucket/" \o BlobName(name),
     gcs_blob_name |-> BlobName(name),
     page_number |-> chunk.page,
     chunk_index |-> i,
     document_name |-> Basename(name)]

\* the ids list built by `for i, chunk in enumerate(chunks)`
IdsOf(name, cs) == [j \in 1..Len(cs) |-> ChunkId(j - 1, Stem(name))]

\* a write that replaces the collection by the given records
UpsertReplace(store, ids, embs, contents, metadatas) ==
    [k \in {ids[j] : j \in 1..Len(ids)} |->
        LET j == Max({m \in 1..Len(ids) : ids[m] = k})
        IN [document |-> contents[j], embedding |-> embs[j],
            metadata |-> metadatas[j]]]

\* collection.upsert(ids, embeddings, documents, metadatas)
Upsert(store, ids, embs, contents, metadatas) ==
    [k \in DOMAIN store \cup {ids[j] : j \in 1..Len(ids)} |->
        IF \E j \in 1..Len(ids) : ids[j] = k
        THEN LET j == Max({m \in 1..Len(ids) : ids[m] = k})
             IN [document |-> contents[j], embedding |-> embs[j],
                 metadata |-> metadatas[j]]
        ELSE store[k]]

---------------------------------------------------------------------------
(* ingestion_pipeline.py: the program *)

CurBlob == pdf_files[in_idx]

\* where the loop of main continues after `except Exception: ... continue`
IngestAfterError(i) == i + 1

\* an exception leaves the try body of the loop of main
IngestFail(stage) ==
    /\ in_failed' = (in_idx :> stage) @@ in_failed
    /\ in_idx' = IngestAfterError(in_idx)
    /\ in_pc' = "download"
    /\ in_chunks' = <<>>
    /\ in_embeddings' = <<>>

\* the buckets after a listed blob was deleted
Deletions(b) == {[n \in DOMAIN b \ {gone} |-> b[n]] : gone \in {n \in DOMAIN b : IsPdf(n)}}

\* setup_google_cloud_authentication() (warns only), then
\* pdf_files = list_pdfs_in_bucket(GCS_BUCKET_NAME); an empty list exits 1,
\* an error is caught by the outer except, which exits 1; a listed blob may
\* be deleted from the bucket before the loop downloads it
IngestList ==
    /\ prog = "ingest" /\ in_pc = "main"
    /\ \E ok \in BOOLEAN :
         IF ok
         THEN /\ pdf_files' = list_pdfs_in_bucket(bucket)
              /\ bucket' \in {bucket} \cup Deletions(bucket)
              /\ IF Len(list_pdfs_in_bucket(bucket)) = 0
                 THEN in_pc' = "exit" /\ in_exit' = 1 /\ UNCHANGED in_idx
                 ELSE in_pc' = "download" /\ in_idx' = 1 /\ UNCHANGED in_exit
         ELSE /\ in_pc' = "exit" /\ in_exit' = 1
              /\ UNCHANGED <<pdf_files, in_idx, bucket>>
    /\ total_chunks' = 0
    /\ UNCHANGED <<prog, procVars, syncVars, pdf_documents, in_run,
                   in_chunks, in_embeddings, in_attempted, in_failed,
                   in_embed_err, in_upserts, in_prev>>

\* temp_pdf_path = download_pdf_from_gcs(GCS_BUCKET_NAME, pdf_blob_name)
IngestDownload ==
    /\ prog = "ingest" /\ in_pc = "download"
    /\ in_idx <= Len(pdf_files)
    /\ in_attempted' = in_attempted \cup {in_idx}
    /\ \E ok \in BOOLEAN :
         IF ok /\ CurBlob \in DOMAIN bucket
         THEN /\ in_pc' = "load"
              /\ UNCHANGED <<in_idx, in_chunks, in_embeddings, in_failed>>
         ELSE IngestFail("download")
    /\ UNCHANGED <<prog, procVars, syncVars, bucket, pdf_documents, in_run,
                   pdf_files, total_chunks, in_exit, in_embed_err, in_upserts,
                   in_prev>>

\* documents = loader.load(); `if not documents: raise ValueError`;
\* chunks = text_splitter.split_documents(documents)
IngestLoad ==
    /\ prog = "ingest" /\ in_pc = "load"
    /\ \E ok \in BOOLEAN :
         IF ok /\ Len(bucket[CurBlob]) > 0
         THEN /\ in_chunks' = split_documents(bucket[CurBlob])
              /\ in_pc' = "embed"
              /\ UNCHANGED <<in_idx, in_embeddings, in_failed>>
         ELSE IngestFail("load")
    /\ UNCHANGED <<prog, procVars, syncVars, bucket, pdf_documents, in_run,
                   pdf_files, total_chunks, in_exit, in_attempted,
                   in_embed_err, in_upserts, in_prev>>

\* embeddings = embeddings_model.embed_documents(chunk_texts) and the print
\* of len(embeddings[0]), inside `try: ... except Exception: ... raise`
IngestEmbed ==
    /\ prog = "ingest" /\ in_pc = "embed"
    /\ \E ok \in BOOLEAN :
         /\ in_embed_err' = IF ok THEN in_embed_err ELSE in_embed_err \cup {in_idx}
         /\ IF ok /\ Len(in_chunks) > 0
               THEN /\ in_embeddings' =
                         embed_documents([j \in 1..Len(in_chunks) |->
                                             in_chunks[j].page_content])
                    /\ in_pc' = "upsert"
                    /\ UNCHANGED <<in_idx, in_chunks, in_failed>>
               ELSE IngestFail("embed")
    /\ UNCHANGED <<prog, procVars, syncVars, bucket, pdf_documents, in_run,
                   pdf_files, total_chunks, in_exit, in_attempted, in_upserts,
                   in_prev>>

\* the ChromaDB client and collection are opened, ids, metadatas and contents
\* are built, collection.upsert(...) is called, ingest_pdf_to_vectorstore
\* returns len(chunks) and main adds it to total_chunks
IngestUpsert ==
    /\ prog = "ingest" /\ in_pc = "upsert"
    /\ \E ok \in BOOLEAN :
         IF ok
         THEN /\ pdf_documents' =
                   Upsert(pdf_documents, IdsOf(CurBlob, in_chunks), in_embeddings,
                          [j \in 1..Len(in_chunks) |-> in_chunks[j].page_content],
                          [j \in 1..Len(in_chunks) |->
                              ChunkMetadata(CurBlob, j - 1, in_chunks[j])])
              /\ in_upserts' =
                   Append(in_upserts,
                          [pos |-> in_idx, blob |-> CurBlob,
                           ids |-> IdsOf(CurBlob, in_chunks),
                           keys_before |-> DOMAIN pdf_documents])
              /\ total_chunks' = total_chunks + Len(in_chunks)
              /\ in_idx' = in_idx + 1
              /\ in_pc' = "download"
              /\ in_chunks' = <<>>
              /\ in_embeddings' = <<>>
              /\ UNCHANGED in_failed
         ELSE /\ IngestFail("upsert")
              /\ UNCHANGED <<pdf_documents, in_upserts, total_chunks>>
    /\ UNCHANGED <<prog, procVars, syncVars, bucket, in_run, pdf_files,
                   in_exit, in_attempted, in_embed_err, in_prev>>

\* the loop is over: temp files are removed, the total is printed and main
\* returns
IngestFinish ==
    /\ prog = "ingest" /\ in_pc = "download"
    /\ in_idx > Len(pdf_files)
    /\ in_pc' = "exit"
    /\ in_exit' = 0
    /\ UNCHANGED <<prog, procVars, syncVars, bucket, pdf_documents, in_run,
                   pdf_files, in_idx, in_chunks, in_embeddings, total_chunks,
                   in_attempted, in_failed, in_embed_err, in_upserts, in_prev>>

\* the ids each blob was upserted under in this run
UpsertedIds ==
    [n \in {in_upserts[j].blob : j \in 1..Len(in_upserts)} |->
        LET j == CHOOSE m \in 1..Len(in_upserts) : in_upserts[m].blob = n
        IN in_upserts[j].ids]

\* the script is run again; a blob may have been uploaded again in between
IngestRunAgain ==
    /\ prog = "ingest" /\ in_pc = "exit"
    /\ in_run < MaxRuns
    /\ in_prev' = Append(in_prev, [bucket |-> bucket, ids |-> UpsertedIds])
    /\ bucket' \in {bucket} \cup Reuploads(bucket)
    /\ in_run' = in_run + 1
    /\ in_pc' = "main"
    /\ pdf_files' = <<>> /\ in_idx' = 0 /\ in_chunks' = <<>>
    /\ in_embeddings' = <<>> /\ total_chunks' = 0 /\ in_exit' = -1
    /\ in_attempted' = {} /\ in_failed' = <<>> /\ in_embed_err' = {}
    /\ in_upserts' = <<>>
    /\ UNCHANGED <<prog, procVars, syncVars, pdf_documents>>

IngestInit ==
    /\ prog = "ingest"
    /\ ProcIdle
    /\ SyncIdle
    /\ bucket \in IngestBuckets
    /\ pdf_documents = <<>>
    /\ in_pc = "main" /\ in_run = 1
    /\ pdf_files = <<>> /\ in_idx = 0 /\ in_chunks = <<>>
    /\ in_embeddings = <<>> /\ total_chunks = 0 /\ in_exit = -1
    /\ in_attempted = {} /\ in_failed = <<>> /\ in_embed_err = {}
    /\ in_upserts = <<>> /\ in_prev = <<>>

IngestNext ==
    \/ IngestList \/ IngestDownload \/ IngestLoad \/ IngestEmbed
    \/ IngestUpsert \/ IngestFinish \/ IngestRunAgain

SpecIngest == IngestInit /\ [][IngestNext]_vars

\* the two ingestion scripts
PipelinesInit == ProcInit \/ IngestInit
PipelinesNext == ProcNext \/ IngestNext
SpecPipelines == PipelinesInit /\ [][PipelinesNext]_vars

---------------------------------------------------------------------------
(* sync_chromadb_to_firestore.py: inputs *)

GcsMetadata(blob, filename, page, index) ==
    [source |-> "gs://minewise-bucket/" \o blob,
     gcs_uri |-> "gs://minewise-bucket/" \o blob,
     gcs_blob_name |-> blob, page_number |-> page, chunk_index |-> index,
     document_name |-> filename]

\* the k-th record of the pool the ChromaDB collection is filled from:
\* two chunks of one bucket document, a record without metadata and
\* embedding, chunks of a document whose metadata has no bucket fields
ChromaRecord(k) ==
    CASE k = 1 ->
           [id |-> ChunkId(0, "report"), document |-> "report text 0",
            embedding_none |-> FALSE, embedding |-> <<11, 12>>,
            metadata |-> GcsMetadata("docs/report.pdf", "report.pdf", 0, 0)]
      [] k = 2 ->
           [id |-> ChunkId(1, "report"), document |-> "report text 1",
            embedding_none |-> FALSE, embedding |-> <<21, 22>>,
            metadata |-> GcsMetadata("docs/report.pdf", "report.pdf", 1, 1)]
      [] k = 3 ->
           [id |-> ChunkId(0, "scan"), document |-> "scan text",
            embedding_none |-> TRUE, embedding |-> <<>>,
            metadata |-> <<>>]
      [] OTHER ->
           [id |-> ChunkId(k, "notes"), document |-> "notes text",
            embedding_none |-> FALSE, embedding |-> <<31, 32>>,
            metadata |-> [source |-> "notes.pdf", page_number |-> 2,
                          chunk_index |-> k, document_name |-> "notes.pdf"]]

PoolIds == {ChromaRecord(k).id : k \in 1..MaxRecords}

\* the collections: the first n pool records in order, or all in reverse
ChromaChoices ==
    {[j \in 1..n |-> ChromaRecord(j)] : n \in 0..MaxRecords}
    \cup {[j \in 1..MaxRecords |-> ChromaRecord(MaxRecords + 1 - j)]}

\* a vectorChunks document left by an earlier sync of an older record
StaleFields(id) ==
    [content |-> "old text", embedding |-> <<0>>, documentId |-> "old.pdf",
     source |-> "old.pdf", pageNumber |-> 9, chunkIndex |-> 9,
     documentName |-> "old.pdf", embeddingDim |-> 1, createdAt |-> 0,
     syncedFrom |-> "chromadb", chromadbId |-> id]

VectorChunksChoices == {[id \in K |-> StaleFields(id)] : K \in SUBSET PoolIds}

DefaultEnv == [GOOGLE_CLOUD_PROJECT |-> "", GCP_PROJECT_ID |-> "",
               adc_ok |-> TRUE, adc_project |-> "adc-project"]

Envs ==
    [GOOGLE_CLOUD_PROJECT : {"", "explicit-project"},
     GCP_PROJECT_ID : {"", "fallback-project"},
     adc_ok : BOOLEAN, adc_project : {"", "adc-project"}]

---------------------------------------------------------------------------
(* sync_chromadb_to_firestore.py: functions *)

\* Python's `x or y` on strings (None and '' are false)
OrElse(x, y) == IF x # "" THEN x ELSE y

\* credentials, project_id = google_auth_default(): without credentials the
\* library raises; the project it returns is GOOGLE_CLOUD_PROJECT when that
\* variable is set and the project of the credentials otherwise
google_auth_default(e) ==
    [raised |-> ~e.adc_ok,
     project |-> OrElse(e.GOOGLE_CLOUD_PROJECT, e.adc_project)]

\* setup_google_cloud_authentication
ResolveProject(e) ==
    IF google_auth_default(e).raised THEN [raised |-> TRUE, value |-> ""]
    ELSE IF google_auth_default(e).project # ""
         THEN [raised |-> FALSE, value |-> google_auth_default(e).project]
    ELSE IF OrElse(e.GOOGLE_CLOUD_PROJECT, e.GCP_PROJECT_ID) # ""
         THEN [raised |-> FALSE,
               value |-> OrElse(e.GOOGLE_CLOUD_PROJECT, e.GCP_PROJECT_ID)]
    ELSE [raised |-> TRUE, value |-> ""]

\* metadata.get(key, default) if metadata else default
MetaGet(metadata, key, default) ==
    IF DOMAIN metadata # {} /\ key \in DOMAIN metadata THEN metadata[key]
    ELSE default

\* a document id that also depends on the run
FirestoreDocIdPerRun(chunk_id, i) == <<"run", sy_run>> \o chunk_id

\* firestore_doc_id = chunk_id if chunk_id and len(chunk_id) > 0 else f"chunk_{i}"
FirestoreDocId(chunk_id, i) ==
    IF chunk_id # <<>> /\ Len(chunk_id) > 0 THEN chunk_id ELSE <<"chunk_", i>>

\* the fields of firestore_doc
FirestoreFields(rec) ==
    LET md == rec.metadata
        source == MetaGet(md, "source", "")
        gcs_uri == MetaGet(md, "gcs_uri", "")
        gcs_blob_name == MetaGet(md, "gcs_blob_name", "")
        document_name == MetaGet(md, "document_name", "")
    IN [content |-> rec.document,
        embedding |-> IF rec.embedding_none THEN <<>> ELSE rec.embedding,
        documentId |-> OrElse(gcs_blob_name, OrElse(document_name, source)),
        source |-> OrElse(gcs_uri, source),
        pageNumber |-> MetaGet(md, "page_number", 0),
        chunkIndex |-> MetaGet(md, "chunk_index", 0),
        documentName |-> document_name,
        embeddingDim |-> IF rec.embedding_none THEN 768 ELSE Len(rec.embedding),
        createdAt |-> "SERVER_TIMESTAMP",
        syncedFrom |-> "chromadb",
        chromadbId |-> rec.id]

\* lines 114-152 for the record at loop position i
MapRecord(rec, i) ==
    [id |-> FirestoreDocId(rec.id, i), fields |-> FirestoreFields(rec)]

\* the server replaces SERVER_TIMESTAMP by its time (the run number here)
Stamped(fields) == [fields EXCEPT !.createdAt = sy_run]

\* a variant of set that leaves no other document in the collection
FirestoreSetAlone(store, id, fields) == [k \in {id} |-> Stamped(fields)]

\* doc_ref.set(fields): the document is replaced
FirestoreSet(store, id, fields) ==
    [k \in DOMAIN store \cup {id} |-> IF k = id THEN Stamped(fields) ELSE store[k]]

\* doc_ref.update(fields): the given fields are written, the others kept
FirestoreUpdate(store, id, fields) ==
    [k \in DOMAIN store |->
        IF k = id
        THEN [f \in DOMAIN store[k] \cup DOMAIN fields |->
                IF f \in DOMAIN fields THEN Stamped(fields)[f] ELSE store[k][f]]
        ELSE store[k]]

\* a variant in which a write that raises has stored the document all the same
WriteFailedApplied(store, id, fields) == FirestoreSet(store, id, fields)

\* doc_ref.set or doc_ref.update raising: nothing is written, and the except
\* clause of the loop writes nothing either
WriteFailed(store, id, fields) == store

\* a write that never looks at the existence lookup
WriteActionAlwaysSet(exists) == "created"

\* `if existing_doc.exists: update ... else: set ...`
WriteAction(exists) == IF exists THEN "updated" ELSE "created"

\* the loop position if the except clause tried the record again
AfterSkipRetry(i) == i

\* the loop position if the except clause left the loop
AfterSkipBreak(i) == Len(results) + 1

\* the loop position after `except Exception: ... continue`
AfterSkip(i) == i + 1

---------------------------------------------------------------------------
(* sync_chromadb_to_firestore.py: the program *)

\* an exit status that ignores the count
ExitStatusZero(synced) == 0

\* main: `if synced_count > 0: ... else: ... sys.exit(1)`
ExitStatus(synced) == IF synced > 0 THEN 0 ELSE 1

\* an entry of the history of calls
Call(op, pos, ok, exists) ==
    [op |-> op, pos |-> pos, ok |-> ok, exists |-> exists]

\* an exception reaches main: `except Exception: ... sys.exit(1)`
SyncAbort ==
    /\ sy_pc' = "exit"
    /\ exit_code' = 1

\* project_id = setup_google_cloud_authentication()
SyncAuth ==
    /\ prog = "sync" /\ sy_pc = "main"
    /\ IF ResolveProject(env).raised
       THEN SyncAbort /\ UNCHANGED project_id
       ELSE /\ project_id' = ResolveProject(env).value
            /\ sy_pc' = "connect"
            /\ UNCHANGED exit_code
    /\ UNCHANGED <<prog, procVars, ingestVars, env, chroma, vc, sy_run, results, sy_i,
                   firestore_doc, existing, synced_count, skipped_count,
                   created, updated, skipped, tried, vc0, prev, calls>>

\* chromadb.PersistentClient(...), chroma_client.get_collection(...)
SyncConnectChroma ==
    /\ prog = "sync" /\ sy_pc = "connect"
    /\ \E ok \in BOOLEAN :
         IF ok THEN sy_pc' = "retrieve" /\ UNCHANGED exit_code
         ELSE SyncAbort
    /\ UNCHANGED <<prog, procVars, ingestVars, env, chroma, vc, sy_run, project_id, results,
                   sy_i, firestore_doc, existing, synced_count, skipped_count,
                   created, updated, skipped, tried, vc0, prev, calls>>

\* results = collection.get(...); an empty collection returns 0, and main
\* exits 1 on a count of 0
SyncRetrieve ==
    /\ prog = "sync" /\ sy_pc = "retrieve"
    /\ \E ok \in BOOLEAN :
         /\ calls' = Append(calls, Call("list", 0, ok, FALSE))
         /\ IF ok
            THEN /\ results' = chroma
                 /\ IF Len(chroma) = 0
                    THEN sy_pc' = "exit" /\ exit_code' = ExitStatus(0)
                    ELSE sy_pc' = "fs_connect" /\ UNCHANGED exit_code
            ELSE SyncAbort /\ UNCHANGED results
    /\ UNCHANGED <<prog, procVars, ingestVars, env, chroma, vc, sy_run, project_id, sy_i,
                   firestore_doc, existing, synced_count, skipped_count,
                   created, updated, skipped, tried, vc0, prev>>

\* db = firestore.Client(project=project_id); synced_count = 0; skipped_count = 0
SyncConnectFirestore ==
    /\ prog = "sync" /\ sy_pc = "fs_connect"
    /\ \E ok \in BOOLEAN :
         IF ok
         THEN /\ sy_pc' = "loop" /\ sy_i' = 1
              /\ synced_count' = 0 /\ skipped_count' = 0
              /\ UNCHANGED exit_code
         ELSE SyncAbort /\ UNCHANGED <<sy_i, synced_count, skipped_count>>
    /\ UNCHANGED <<prog, procVars, ingestVars, env, chroma, vc, sy_run, project_id, results,
                   firestore_doc, existing, created, updated, skipped, tried,
                   vc0, prev, calls>>

\* `except Exception as e: skipped_count += 1; continue`
SyncSkip ==
    /\ skipped_count' = skipped_count + 1
    /\ skipped' = skipped \cup {sy_i}
    /\ sy_i' = AfterSkip(sy_i)
    /\ sy_pc' = "loop"
    /\ firestore_doc' = NoFirestoreDoc
    /\ existing' = FALSE

\* lines 113-152: the record at position sy_i is mapped to firestore_doc
SyncMap ==
    /\ prog = "sync" /\ sy_pc = "loop"
    /\ sy_i <= Len(results)
    /\ tried' = tried \cup {sy_i}
    /\ \E ok \in BOOLEAN :
         /\ calls' = Append(calls, Call("map", sy_i, ok, FALSE))
         /\ IF ok
            THEN /\ firestore_doc' = MapRecord(results[sy_i], sy_i)
                 /\ sy_pc' = "lookup"
                 /\ UNCHANGED <<sy_i, existing, skipped_count, skipped>>
            ELSE SyncSkip
    /\ UNCHANGED <<prog, procVars, ingestVars, env, chroma, vc, sy_run, project_id, results,
                   synced_count, exit_code, created, updated, vc0, prev>>

\* doc_ref = firestore_ref.document(firestore_doc_id); existing_doc = doc_ref.get()
SyncLookup ==
    /\ prog = "sync" /\ sy_pc = "lookup"
    /\ \E ok \in BOOLEAN :
         /\ calls' = Append(calls, Call("lookup", sy_i, ok,
                                        ok /\ firestore_doc.id \in DOMAIN vc))
         /\ IF ok
            THEN /\ existing' = (firestore_doc.id \in DOMAIN vc)
                 /\ sy_pc' = "write"
                 /\ UNCHANGED <<sy_i, firestore_doc, skipped_count, skipped>>
            ELSE SyncSkip
    /\ UNCHANGED <<prog, procVars, ingestVars, env, chroma, vc, sy_run, project_id, results,
                   synced_count, exit_code, created, updated, tried, vc0, prev>>

\* doc_ref.update(firestore_doc) or doc_ref.set(firestore_doc); synced_count += 1
SyncWrite ==
    /\ prog = "sync" /\ sy_pc = "write"
    /\ \E ok \in BOOLEAN :
         /\ calls' = Append(calls, Call(IF WriteAction(existing) = "updated"
                                        THEN "update" ELSE "set", sy_i,
                                        ok /\ (WriteAction(existing) = "updated"
                                               => firestore_doc.id \in DOMAIN vc),
                                        existing))
         /\ IF ok /\ (WriteAction(existing) = "updated" => firestore_doc.id \in DOMAIN vc)
            THEN /\ IF WriteAction(existing) = "updated"
                    THEN /\ vc' = FirestoreUpdate(vc, firestore_doc.id, firestore_doc.fields)
                         /\ updated' = updated \cup {firestore_doc.id}
                         /\ UNCHANGED created
                    ELSE /\ vc' = FirestoreSet(vc, firestore_doc.id, firestore_doc.fields)
                         /\ created' = created \cup {firestore_doc.id}
                         /\ UNCHANGED updated
                 /\ synced_count' = synced_count + 1
                 /\ sy_i' = sy_i + 1
                 /\ sy_pc' = "loop"
                 /\ firestore_doc' = NoFirestoreDoc
                 /\ existing' = FALSE
                 /\ UNCHANGED <<skipped_count, skipped>>
            ELSE /\ SyncSkip
                 /\ vc' = WriteFailed(vc, firestore_doc.id, firestore_doc.fields)
                 /\ UNCHANGED <<created, updated, synced_count>>
    /\ UNCHANGED <<prog, procVars, ingestVars, env, chroma, sy_run, project_id, results,
                   exit_code, tried, vc0, prev>>

\* the loop is over: the summary is printed
SyncSummary ==
    /\ prog = "sync" /\ sy_pc = "loop"
    /\ sy_i > Len(results)
    /\ sy_pc' = "summary"
    /\ UNCHANGED <<prog, procVars, ingestVars, env, chroma, vc, sy_run, project_id, results,
                   sy_i, firestore_doc, existing, synced_count, skipped_count,
                   exit_code, created, updated, skipped, tried, vc0, prev, calls>>

\* return synced_count; main exits 1 when it is 0
SyncReturn ==
    /\ prog = "sync" /\ sy_pc = "summary"
    /\ sy_pc' = "exit"
    /\ exit_code' = ExitStatus(synced_count)
    /\ UNCHANGED <<prog, procVars, ingestVars, env, chroma, vc, sy_run, project_id, results,
                   sy_i, firestore_doc, existing, synced_count, skipped_count,
                   created, updated, skipped, tried, vc0, prev, calls>>

\* the script is run again over the same ChromaDB collection, after a run
\* that synced every record
SyncRunAgain ==
    /\ prog = "sync" /\ sy_pc = "exit"
    /\ sy_run < MaxRuns
    /\ exit_code = 0 /\ skipped = {}
    /\ prev' = Append(prev, [keys |-> DOMAIN vc, created |-> created,
                             updated |-> updated, skipped |-> skipped,
                             tried |-> tried, exit_code |-> exit_code])
    /\ sy_run' = sy_run + 1
    /\ sy_pc' = "main"
    /\ vc0' = vc
    /\ project_id' = "" /\ results' = <<>> /\ sy_i' = 0
    /\ firestore_doc' = NoFirestoreDoc /\ existing' = FALSE
    /\ synced_count' = 0 /\ skipped_count' = 0 /\ exit_code' = -1
    /\ created' = {} /\ updated' = {} /\ skipped' = {} /\ tried' = {}
    /\ calls' = <<>>
    /\ UNCHANGED <<prog, procVars, ingestVars, env, chroma, vc>>

SyncInit ==
    /\ prog = "sync"
    /\ ProcIdle
    /\ IngestIdle
    /\ \/ /\ env \in Envs
          /\ chroma = [j \in 1..1 |-> ChromaRecord(j)]
          /\ vc = <<>>
       \/ /\ env = DefaultEnv
          /\ chroma \in ChromaChoices
          /\ vc \in VectorChunksChoices
    /\ sy_pc = "main" /\ sy_run = 1
    /\ project_id = "" /\ results = <<>> /\ sy_i = 0
    /\ firestore_doc = NoFirestoreDoc /\ existing = FALSE
    /\ synced_count = 0 /\ skipped_count = 0 /\ exit_code = -1
    /\ created = {} /\ updated = {} /\ skipped = {} /\ tried = {}
    /\ vc0 = vc /\ prev = <<>> /\ calls = <<>>

SyncNext ==
    \/ SyncAuth \/ SyncConnectChroma \/ SyncRetrieve \/ SyncConnectFirestore
    \/ SyncMap \/ SyncLookup \/ SyncWrite \/ SyncSummary \/ SyncReturn
    \/ SyncRunAgain

SpecSync == SyncInit /\ [][SyncNext]_vars

---------------------------------------------------------------------------
(* Properties of process_documents.py *)

\* the document whose store_in_firestore call has returned and not yet been
\* left, and the documents whose processing ended without error
StoreReturned == succeeded \cup (IF pd_pc = "stored" THEN {doc_idx} ELSE {})

\* C1: in store_in_firestore no commit holds more than 500 writes, every
\* commit but the last of a call holds exactly 500, and a call that returns
\* has committed its N pending writes in exactly ceil(N/500) commits.
C1_BatchCeiling ==
    /\ \A k \in DOMAIN commits :
          /\ \A j \in 1..Len(commits[k]) : commits[k][j] <= BatchLimit
          /\ \A j \in 1..(Len(commits[k]) - 1) : commits[k][j] = BatchLimit
    /\ \A k \in StoreReturned :
          /\ Len(commits[k]) = (store_n[k] + BatchLimit - 1) \div BatchLimit
          /\ store_n[k] > 0 =>
                commits[k][Len(commits[k])]
                  = store_n[k] - BatchLimit * (Len(commits[k]) - 1)

\* C1 witness: a call with 1001 pending writes returned after commits of
\* 500, 500 and 1 writes.
C1_Witness ==
    \E k \in StoreReturned :
        store_n[k] = 2 * BatchLimit + 1 /\ commits[k] = <<BatchLimit, BatchLimit, 1>>

\* C6: the i-th accumulated embedding is the embedding of the i-th chunk
\* text whatever the batch boundaries, all chunks are embedded when the
\* store is called, and the record stored under chunk index i carries the
\* text and the embedding of chunk i.
C6_OrderPreserved ==
    /\ pd_pc \in {"embed", "store_meta", "store_loop", "stored"} =>
          /\ Len(all_embeddings) = (IF emb_i < Len(chunks) THEN emb_i ELSE Len(chunks))
          /\ \A i \in 1..Len(all_embeddings) :
                all_embeddings[i] = EmbeddingOf(chunks[i].text)
    /\ pd_pc \in {"store_meta", "store_loop", "stored"} =>
          Len(all_embeddings) = Len(chunks)
    /\ pd_pc \in {"store_loop", "stored"} =>
          \A key \in DOMAIN fs_chunks[CurDoc.name] :
            LET r == fs_chunks[CurDoc.name][key]
            IN /\ r.chunk_index \in 0..(Len(chunks) - 1)
               /\ key = ChunkKey(r.chunk_index)
               /\ r.text = chunks[r.chunk_index + 1].text
               /\ r.embedding = EmbeddingOf(chunks[r.chunk_index + 1].text)
    /\ pd_pc = "stored" =>
          \A i \in 0..(Len(chunks) - 1) : ChunkKey(i) \in DOMAIN fs_chunks[CurDoc.name]

\* C6 witness: a document of 41 chunks (batches of 20, 20 and 1) is stored.
C6_Witness ==
    /\ pd_pc = "stored"
    /\ Len(chunks) = 2 * EmbedBatchSize + 1
    /\ Cardinality(DOMAIN fs_chunks[CurDoc.name]) = 2 * EmbedBatchSize + 1

---------------------------------------------------------------------------
(* Properties of chunk_text_intelligent *)

\* the text_items are such as extract_text_from_pdf produces: stripped, not empty
FromExtractor ==
    \A i \in 1..Len(text_items) :
        text_items[i].text # <<>> /\ Strip(text_items[i].text) = text_items[i].text

\* the chunk is one sentence that alone exceeds max_tokens
SingleOversized(c) ==
    Len(SplitSentences(c.text)) = 1 /\ WordCount(c.text) > max_tokens

\* C9: every emitted chunk records at most max_tokens tokens unless it is a
\* single sentence that alone exceeds max_tokens (also for the windows
\* seeded with overlap sentences after an overflow).
C9_TokenBound ==
    (prog = "chunker" /\ pd_pc = "returned" /\ FromExtractor) =>
        \A i \in 1..Len(chunks) :
            chunks[i].tokens <= max_tokens \/ SingleOversized(chunks[i])

\* the chunks of page p, in order
PageChunks(p) == SelectSeq(chunks, LAMBDA c : c.page = p)

DropFirst(q, n) == IF n >= Len(q) THEN <<>> ELSE SubSeq(q, n + 1, Len(q))

\* the sentences of the chunks cs[j..] with the overlap prefix (the last two
\* sentences of the previous chunk) removed from every chunk but the first
RECURSIVE Reconstruct(_, _)
Reconstruct(cs, j) ==
    IF j > Len(cs) THEN <<>>
    ELSE (IF j = 1 THEN SplitSentences(cs[1].text)
          ELSE DropFirst(SplitSentences(cs[j].text),
                         IF Len(SplitSentences(cs[j - 1].text)) >= 2 THEN 2
                         ELSE Len(SplitSentences(cs[j - 1].text))))
         \o Reconstruct(cs, j + 1)

\* C10: for every page the chunks of the page, overlap prefixes removed and
\* concatenated, are the sentence sequence of the page.
C10_Coverage ==
    (prog = "chunker" /\ pd_pc = "returned" /\ FromExtractor) =>
        \A i \in 1..Len(text_items) :
            Reconstruct(PageChunks(text_items[i].page), 1)
              = SplitSentences(text_items[i].text)

StripAll(q) == [j \in 1..Len(q) |-> Strip(q[j])]

\* every sentence of every page holds a word
NoEmptySentence ==
    \A i \in 1..Len(text_items) :
        \A j \in 1..Len(SplitSentences(text_items[i].text)) :
            WordCount(SplitSentences(text_items[i].text)[j]) > 0

\* C10 as amended: for pages without an empty sentence the reconstruction
\* is the sentence sequence of the page up to whitespace around sentences.
C10_CoverageAmended ==
    (prog = "chunker" /\ pd_pc = "returned" /\ NoEmptySentence) =>
        \A i \in 1..Len(text_items) :
            StripAll(Reconstruct(PageChunks(text_items[i].page), 1))
              = StripAll(SplitSentences(text_items[i].text))

\* C10 witness: a page of at least four non-empty sentences was split into
\* four chunks, so that windows were seeded with the last two sentences of a
\* window of three.
C10_Witness ==
    /\ prog = "chunker" /\ pd_pc = "returned" /\ NoEmptySentence
    /\ Len(text_items) = 1
    /\ Len(SplitSentences(text_items[1].text)) >= 4
    /\ Len(chunks) >= 4
    /\ Len(SplitSentences(chunks[3].text)) >= 3

---------------------------------------------------------------------------
(* Properties of sync_chromadb_to_firestore.py *)

PrimaryIds == {results[j].id : j \in 1..Len(results)}

AtSummary == prog = "sync" /\ sy_pc = "summary"

\* C2: a sync run over primary records P and pre-existing secondary keys S
\* in which no call fails performs exactly |P \cap S| updates and |P \ S|
\* creates, and afterwards every record of P is in the secondary store under
\* its id with the mapping of the primary record as payload.
C2_Reconciliation ==
    (AtSummary /\ skipped_count = 0) =>
        /\ updated = PrimaryIds \cap DOMAIN vc0
        /\ created = PrimaryIds \ DOMAIN vc0
        /\ synced_count = Len(results)
        /\ Cardinality(updated) + Cardinality(created) = synced_count
        /\ \A j \in 1..Len(results) :
             /\ results[j].id \in DOMAIN vc
             /\ vc[results[j].id] =
                  [FirestoreFields(results[j]) EXCEPT !.createdAt = sy_run]

C2_Witness ==
    /\ AtSummary /\ skipped_count = 0
    /\ Cardinality(updated) >= 1
    /\ Cardinality(created) >= 2
    /\ \E id \in updated : vc[id].content # vc0[id].content

\* C3: a failure while one record is processed is caught and counted as
\* skipped and every later record is still attempted; at the summary
\* synced + skipped is the number of records enumerated, and synced counts
\* exactly the records whose create or update returned.
C3_SkipAndContinue ==
    /\ AtSummary =>
        /\ synced_count + skipped_count = Len(results)
        /\ tried = 1..Len(results)
        /\ synced_count = Cardinality(created \cup updated)
        /\ skipped_count = Cardinality(skipped)
        /\ \A j \in 1..Len(results) :
             j \in skipped <=> results[j].id \notin created \cup updated
    /\ (prog = "sync" /\ sy_pc = "exit" /\ sy_i > 0) => tried = 1..Len(results)

C3_Witness ==
    /\ AtSummary
    /\ Len(results) = MaxRecords
    /\ 1 \in skipped
    /\ synced_count = MaxRecords - 1

FirstRunClean ==
    /\ Len(prev) >= 1
    /\ prev[1].skipped = {}
    /\ prev[1].tried = 1..Len(chroma)
    /\ prev[1].exit_code = 0

\* C4: when the sync is run twice over an unchanged primary store without
\* failures, the second run leaves the secondary store with the key set it
\* had after the first run, holds exactly one secondary record per primary
\* record under the primary record's id, and performs only updates.
C4_ResyncIdempotent ==
    (AtSummary /\ sy_run = 2 /\ FirstRunClean /\ skipped_count = 0) =>
        /\ DOMAIN vc = prev[1].keys
        /\ created = {}
        /\ updated = PrimaryIds
        /\ \A j \in 1..Len(results) :
             /\ results[j].id \in DOMAIN vc
             /\ Cardinality({k \in DOMAIN vc :
                               vc[k].chromadbId = results[j].id}) = 1

C4_Witness ==
    /\ AtSummary /\ sy_run = 2 /\ FirstRunClean /\ skipped_count = 0
    /\ prev[1].created # {}
    /\ Len(results) >= 2
    /\ Cardinality(updated) >= 2

---------------------------------------------------------------------------
(* Properties of ingestion_pipeline.py and of both ingestion scripts *)

SeqRange(q) == {q[j] : j \in 1..Len(q)}

\* this run upserted blob n, an earlier run r did too, and the blob's
\* content was the same in both
SameDocumentAgain(u, r) ==
    /\ u.blob \in DOMAIN in_prev[r].ids
    /\ in_prev[r].bucket[u.blob] = bucket[u.blob]

\* C5: re-running ingest_pdf_to_vectorstore on the same document yields the
\* same chunk ids in both runs, so the second run's upsert overwrites the
\* records of the first (it adds no key) and the store holds no two records
\* for the same document and chunk position.
C5_SameIdsOnReingest ==
    prog = "ingest" =>
      \A j \in 1..Len(in_upserts) : \A r \in 1..Len(in_prev) :
        SameDocumentAgain(in_upserts[j], r) =>
          /\ in_upserts[j].ids = in_prev[r].ids[in_upserts[j].blob]
          /\ SeqRange(in_upserts[j].ids) \subseteq in_upserts[j].keys_before
          /\ Cardinality(SeqRange(in_upserts[j].ids)) = Len(in_upserts[j].ids)
          /\ \A k1, k2 \in DOMAIN pdf_documents :
               (/\ pdf_documents[k1].metadata.gcs_blob_name =
                     BlobName(in_upserts[j].blob)
                /\ pdf_documents[k2].metadata.gcs_blob_name =
                     BlobName(in_upserts[j].blob)
                /\ pdf_documents[k1].metadata.chunk_index =
                     pdf_documents[k2].metadata.chunk_index)
               => k1 = k2

C5_Witness ==
    /\ prog = "ingest" /\ in_run = 2
    /\ \E j \in 1..Len(in_upserts) :
         /\ SameDocumentAgain(in_upserts[j], 1)
         /\ Len(in_upserts[j].ids) >= 2
         /\ \A m \in 1..Len(in_upserts[j].ids) :
              pdf_documents[in_upserts[j].ids[m]].metadata.gcs_blob_name =
                BlobName(in_upserts[j].blob)

\* C7: if the embedding call for a batch of a document raises, nothing of
\* that document is written to a store in that run: process_document never
\* calls store_in_firestore for it, ingest_pdf_to_vectorstore never calls
\* the upsert, also when earlier batches were embedded.
C7_EmbedFailureWritesNothing ==
    /\ \A d \in DOMAIN embed_err :
         /\ d \notin DOMAIN store_n
         /\ d \notin DOMAIN commits
         /\ documents[d].name \notin DOMAIN fs_meta
         /\ fs_chunks[documents[d].name] = <<>>
    /\ \A p \in in_embed_err :
         \A j \in 1..Len(in_upserts) : in_upserts[j].pos # p

C7_Witness ==
    /\ prog = "process_documents"
    /\ \E d \in DOMAIN embed_err :
         /\ embed_err[d] >= EmbedBatchSize
         /\ d \in DOMAIN failed /\ failed[d] = "embed"
         /\ pd_pc = "main" /\ doc_idx = d + 1

\* C8: a failure of one document does not end an ingestion run: whatever
\* the position of the failing document, every later document of the list
\* is still attempted.
C8_ContinueOnError ==
    /\ \A d \in DOMAIN failed :
         d < Len(documents) =>
           \/ d + 1 \in attempted
           \/ pd_pc = "main" /\ doc_idx = d + 1
    /\ (prog = "process_documents" /\ pd_pc = "exit") =>
         attempted = 1..Len(documents)
    /\ \A p \in DOMAIN in_failed :
         /\ p < Len(pdf_files) =>
              \/ p + 1 \in in_attempted
              \/ in_pc = "download" /\ in_idx = p + 1
         /\ in_pc = "exit" => in_exit = 0
    /\ (prog = "ingest" /\ in_pc = "exit" /\ in_exit = 0) =>
         in_attempted = 1..Len(pdf_files)

C8_Witness ==
    /\ prog = "ingest" /\ in_pc = "exit"
    /\ Len(pdf_files) = 3
    /\ 2 \in DOMAIN in_failed
    /\ \E j \in 1..Len(in_upserts) : in_upserts[j].pos = 3

---------------------------------------------------------------------------
(* Further properties of chunk_text_intelligent *)

ChunkerReturned == prog = "chunker" /\ pd_pc = "returned"

\* the sentences of text item i
SentencesOf(i) == SplitSentences(text_items[i].text)

\* C11: a sentence whose token count exceeds max_tokens is emitted as a
\* chunk of its own (a chunk whose text is that sentence), whether it is the
\* first sentence of its page or arrives at a non-empty window.
C11_OversizedOwnChunk ==
    (ChunkerReturned /\ FromExtractor) =>
        \A i \in 1..Len(text_items) : \A k \in 1..Len(SentencesOf(i)) :
            WordCount(SentencesOf(i)[k]) > max_tokens =>
                \E j \in 1..Len(chunks) :
                    /\ chunks[j].page = text_items[i].page
                    /\ chunks[j].text = Strip(SentencesOf(i)[k])

\* C12: a page whose text is empty or only whitespace yields no chunk, and
\* no emitted chunk has empty text.
C12_NoEmptyChunk ==
    ChunkerReturned =>
        /\ \A i \in 1..Len(text_items) :
             Strip(text_items[i].text) = <<>> =>
                 \A j \in 1..Len(chunks) : chunks[j].page # text_items[i].page
        /\ FromExtractor => \A j \in 1..Len(chunks) : chunks[j].text # <<>>

---------------------------------------------------------------------------
(* Further properties of sync_chromadb_to_firestore.py *)

\* the indices of the calls of kind op made for loop position p
CallsAt(ops, p) == {a \in 1..Len(calls) : calls[a].op \in ops /\ calls[a].pos = p}

\* C13: in a sync run the listing comes first, every record is mapped,
\* looked up and written at most once and in enumeration order, a write
\* directly follows the successful lookup of the same record, it is a set
\* when the lookup reported absent and an update when it reported present,
\* a skipped record is not attempted again, and at the summary every record
\* was attempted exactly once.
C13_RecordStateMachine ==
    prog = "sync" =>
      /\ \A a \in 1..Len(calls) : (calls[a].op = "list") <=> (a = 1)
      /\ \A a, b \in 1..Len(calls) : a < b => calls[a].pos <= calls[b].pos
      /\ \A p \in 1..Len(results) :
           /\ Cardinality(CallsAt({"map"}, p)) <= 1
           /\ Cardinality(CallsAt({"lookup"}, p)) <= 1
           /\ Cardinality(CallsAt({"set", "update"}, p)) <= 1
           /\ p \in skipped =>
                /\ \A a \in CallsAt({"set", "update"}, p) : ~calls[a].ok
                /\ \A a \in CallsAt({"map", "lookup", "set", "update"}, p) :
                     \A b \in (a + 1)..Len(calls) :
                        ~calls[a].ok => calls[b].pos > p
                /\ sy_i > p
      /\ \A a \in 1..Len(calls) :
           calls[a].op \in {"set", "update"} =>
             /\ a > 1
             /\ calls[a - 1].op = "lookup"
             /\ calls[a - 1].pos = calls[a].pos
             /\ calls[a - 1].ok
             /\ calls[a - 1].exists <=> (calls[a].op = "update")
      /\ \A a \in 1..Len(calls) :
           calls[a].op = "lookup" =>
             a > 1 /\ calls[a - 1] = Call("map", calls[a].pos, TRUE, FALSE)
      /\ sy_pc = "summary" =>
           \A p \in 1..Len(results) : Cardinality(CallsAt({"map"}, p)) = 1

C13_Witness ==
    /\ AtSummary
    /\ Len(results) = MaxRecords
    /\ created # {} /\ updated # {}
    /\ \E a \in 1..Len(calls) : calls[a].op = "lookup" /\ ~calls[a].ok
    /\ \E a \in 1..Len(calls) :
         /\ ~calls[a].ok /\ calls[a].pos < MaxRecords
         /\ \E b \in 1..Len(calls) : calls[b].pos > calls[a].pos /\ calls[b].ok

---------------------------------------------------------------------------
(* Further properties of ingestion_pipeline.py *)

\* the listed positions whose blob is not in the bucket
MissingPositions == {p \in 1..Len(pdf_files) : pdf_files[p] \notin DOMAIN bucket}

\* C14: ingesting a path that does not exist raises an input error before
\* the PDF is loaded, and the ingestion process exits with a non-zero status.
C14_MissingPathExitsNonZero ==
    prog = "ingest" =>
      \A p \in MissingPositions \cap in_attempted :
         /\ p \in DOMAIN in_failed /\ in_failed[p] = "download"
         /\ in_pc = "exit" => in_exit # 0

---------------------------------------------------------------------------
(* Exit status and project resolution of sync_chromadb_to_firestore.py *)

SyncExited == prog = "sync" /\ sy_pc = "exit"

\* the run printed its summary before it ended
SummaryReached == Len(results) > 0 /\ sy_i = Len(results) + 1

\* the listing returned an empty collection
EmptyListing == calls = <<Call("list", 0, TRUE, FALSE)>> /\ results = <<>>

\* a run without a resolvable project ends before any store is touched
NoProjectNoStore ==
    (SyncExited /\ ResolveProject(env).raised) =>
        exit_code # 0 /\ calls = <<>> /\ vc = vc0 /\ results = <<>>

\* C15: a sync run that completes without an uncaught failure (it reaches
\* the summary, or the primary store is empty) exits 0, and a run without a
\* resolvable project identifier exits non-zero before any store is used.
C15_ExitStatus ==
    /\ (SyncExited /\ (SummaryReached \/ EmptyListing)) => exit_code = 0
    /\ NoProjectNoStore

\* C15 as amended: a run exits 0 exactly when it reached the summary with
\* at least one synced record; an empty primary store and a run in which
\* every record was skipped exit 1; a run without a resolvable project
\* identifier exits non-zero before any store is used.
C15_ExitStatusAmended ==
    /\ SyncExited =>
         (exit_code = 0 <=> (SummaryReached /\ synced_count > 0))
    /\ (SyncExited /\ exit_code # 0) => exit_code = 1
    /\ NoProjectNoStore

C15_Witness ==
    /\ SyncExited /\ SummaryReached
    /\ synced_count = 0 /\ skipped_count = Len(results)
    /\ exit_code = 1

---------------------------------------------------------------------------
(* Empty extraction results in both ingestion scripts *)

\* documents of `documents` whose PDF is in the bucket and yields no text item
EmptyExtraction ==
    {d \in 1..Len(documents) :
        /\ documents[d].gcs_path \in DOMAIN gcs
        /\ extract_text_from_pdf(gcs[documents[d].gcs_path]) = <<>>}

\* listed blobs that are in the bucket and have no page
EmptyLoad ==
    {p \in 1..Len(pdf_files) :
        pdf_files[p] \in DOMAIN bucket /\ Len(bucket[pdf_files[p]]) = 0}

\* C16: an empty extraction result is fatal to its document and to nothing
\* else: the document ends in an error, no chunk record and no metadata
\* record is written for it, and the other documents are still processed.
C16_EmptyExtractionFatal ==
    /\ prog = "process_documents" =>
         /\ \A d \in EmptyExtraction :
              /\ d \notin succeeded
              /\ documents[d].name \notin DOMAIN fs_meta
              /\ fs_chunks[documents[d].name] = <<>>
         /\ pd_pc = "exit" => attempted = 1..Len(documents)
    /\ prog = "ingest" =>
         /\ \A p \in EmptyLoad :
              /\ \A j \in 1..Len(in_upserts) : in_upserts[j].pos # p
              /\ (p < in_idx \/ in_pc = "exit") => p \in DOMAIN in_failed
         /\ (in_pc = "exit" /\ in_exit = 0) => in_attempted = 1..Len(pdf_files)

---------------------------------------------------------------------------
(* The primary store over a sequence of ingestion runs *)

\* C17: no step of any ingestion run deletes a record of the primary store:
\* every id stays, and a record changes only in the upsert that writes its
\* id, so the records of an earlier run at the indices a shorter later run
\* does not write stay as they were.
C17_NeverDeletes ==
    [][\A k \in DOMAIN pdf_documents :
          /\ k \in DOMAIN pdf_documents'
          /\ pdf_documents'[k] # pdf_documents[k] =>
               /\ in_pc = "upsert"
               /\ k \in SeqRange(IdsOf(CurBlob, in_chunks))]_vars

\* a later run wrote fewer chunks of a blob than an earlier one, and the
\* record of the earlier run at the last index is still there
C17_Witness ==
    /\ prog = "ingest" /\ in_run = 2
    /\ \E j \in 1..Len(in_upserts) :
         LET u == in_upserts[j]
         IN /\ u.blob \in DOMAIN in_prev[1].ids
            /\ Len(u.ids) < Len(in_prev[1].ids[u.blob])
            /\ LET old == in_prev[1].ids[u.blob]
               IN /\ old[Len(old)] \in DOMAIN pdf_documents
                  /\ pdf_documents[old[Len(old)]].metadata.chunk_index = Len(old) - 1
                  /\ pdf_documents[old[1]].document = "s0"

---------------------------------------------------------------------------
(* Project identifier resolution *)

\* the project the stated order selects: the explicit variable, then the
\* fallback variable, then the project of the ambient credentials
StatedProject(e) ==
    OrElse(e.GOOGLE_CLOUD_PROJECT, OrElse(e.GCP_PROJECT_ID, e.adc_project))

\* C18: the project identifier is the explicit project variable when it is
\* set, else the fallback project variable when it is set, else the project
\* derived from the ambient credentials, for every combination of sources
\* (credentials being available).
C18_ResolutionOrder ==
    (/\ prog = "sync" /\ sy_pc \notin {"main", "idle"}
     /\ env.adc_ok /\ StatedProject(env) # "") =>
        project_id = StatedProject(env)

---------------------------------------------------------------------------
(* Configuration of chunk_text_intelligent *)

\* C19: chunk_text_intelligent called with overlap_tokens > max_tokens ends
\* in an error and produces no chunks.
C19_OverlapConfigRejected ==
    (prog = "chunker" /\ pd_pc # "chunk" /\ overlap_tokens > max_tokens) =>
        pd_pc = "raised" /\ chunks = <<>>

---------------------------------------------------------------------------
(* A batch commit that fails in store_in_firestore *)

\* the documents whose store_in_firestore call was left by a failing commit
CommitFailures == {d \in DOMAIN failed : failed[d] = "commit"}

\* C20: when the k-th batch commit of a document fails, the metadata record
\* and exactly the 500*(k-1) chunk records of the k-1 earlier commits remain
\* in Firestore, the document is reported as failed to the loop of __main__
\* and not as processed, and from then on no commit is made for it and its
\* records are left as they are.
C20_NoRollback ==
    /\ [](\A d \in CommitFailures :
            LET name == documents[d].name
                done == Len(commits[d])
            IN /\ name \in DOMAIN fs_meta
               /\ fs_meta[name] = [name |-> name, total_chunks |-> store_n[d],
                                   status |-> "processed"]
               /\ \A j \in 1..done : commits[d][j] = BatchLimit
               /\ BatchLimit * done < store_n[d]
               /\ DOMAIN fs_chunks[name]
                    = {ChunkKey(i) : i \in 0..(BatchLimit * done - 1)}
               /\ d \notin succeeded
               /\ doc_idx > d)
    /\ [][\A d \in CommitFailures :
            /\ d \in DOMAIN failed' /\ failed'[d] = "commit"
            /\ commits'[d] = commits[d]
            /\ fs_chunks'[documents[d].name] = fs_chunks[documents[d].name]
            /\ fs_meta'[documents[d].name] = fs_meta[documents[d].name]]_vars

\* C20 witness: the third commit of a document of 1001 chunks failed; the
\* metadata record and the 1000 records of the first two commits are stored.
C20_Witness ==
    \E d \in CommitFailures :
        /\ commits[d] = <<BatchLimit, BatchLimit>>
        /\ store_n[d] = 2 * BatchLimit + 1
        /\ Cardinality(DOMAIN fs_chunks[documents[d].name]) = 2 * BatchLimit
        /\ documents[d].name \in DOMAIN fs_meta

---------------------------------------------------------------------------
(* The window of chunk_text_intelligent at an overflow *)

\* the last two sentences of a window, all of it if it holds fewer than two
Seed(held) ==
    IF Len(held) < 2 THEN held ELSE <<held[Len(held) - 1], held[Len(held)]>>

\* sentence arrives at the non-empty window w and would push its running
\* token count above max_tokens
Overflows(w, sentence) ==
    w.cur # <<>> /\ w.tok + WordCount(sentence) > max_tokens

\* the sentences held by the window after it met one more sentence: an empty
\* window takes the sentence, a window that overflows keeps its last two
\* sentences and takes the sentence, any other window takes it at its end
HeldAfter(held, w, sentence) ==
    IF JoinSentences(held) = <<>> THEN <<sentence>>
    ELSE IF Overflows(w, sentence) THEN Append(Seed(held), sentence)
    ELSE Append(held, sentence)

\* for text item i, the loop state w = [cur, tok, out] and the sentences
\* held by the window before each sentence k and after the last one
RECURSIVE WindowTrace(_, _, _)
WindowTrace(i, k, trace) ==
    IF k > Len(SentencesOf(i)) THEN trace
    ELSE LET last == trace[Len(trace)]
             sentence == SentencesOf(i)[k]
         IN WindowTrace(i, k + 1,
                Append(trace,
                    [w |-> ChunkSentence(last.w, sentence, text_items[i],
                                         max_tokens),
                     held |-> HeldAfter(last.held, last.w, sentence)]))

WindowsOf(i) ==
    WindowTrace(i, 1, <<[w |-> [cur |-> <<>>, tok |-> 0, out |-> <<>>],
                        held |-> <<>>]>>)

\* C21: whenever a sentence would push the running token count above
\* max_tokens and the window is not empty, the window is closed (emitted as
\* the next chunk with its text and its token count), the next window is the
\* last two sentences of the closed window (all of it if it held fewer than
\* two) followed by the overflowing sentence, and the running token count is
\* the word count of that new window.
C21_OverflowSeedsNextWindow ==
    ChunkerReturned =>
        \A i \in 1..Len(text_items) :
            LET windows == WindowsOf(i)
            IN \A k \in 1..Len(SentencesOf(i)) :
                 Overflows(windows[k].w, SentencesOf(i)[k]) =>
                     LET w == windows[k].w
                         n == windows[k + 1].w
                     IN /\ w.cur = JoinSentences(windows[k].held)
                        /\ n.out = Append(w.out,
                                          [text |-> Strip(w.cur),
                                           page |-> text_items[i].page,
                                           tokens |-> w.tok,
                                           metadata |-> text_items[i].metadata])
                        /\ \E j \in 1..Len(chunks) :
                              chunks[j] = n.out[Len(n.out)]
                        /\ n.cur = JoinSentences(Append(Seed(windows[k].held),
                                                        SentencesOf(i)[k]))
                        /\ n.tok = WordCount(n.cur)

\* C21 witness: a window holding three sentences overflowed, and one holding
\* a single sentence overflowed.
C21_Witness ==
    /\ ChunkerReturned
    /\ \E i \in 1..Len(text_items) : \E k \in 1..Len(SentencesOf(i)) :
          /\ Overflows(WindowsOf(i)[k].w, SentencesOf(i)[k])
          /\ Len(WindowsOf(i)[k].held) >= 3
    /\ \E i \in 1..Len(text_items) : \E k \in 1..Len(SentencesOf(i)) :
          /\ Overflows(WindowsOf(i)[k].w, SentencesOf(i)[k])
          /\ Len(WindowsOf(i)[k].held) = 1

---------------------------------------------------------------------------
(* Skipped records and the vectorChunks collection *)

\* the vectorChunks document under id in store: <<document>>, or <<>> when
\* there is none
DocAt(store, id) == IF id \in DOMAIN store THEN <<store[id]>> ELSE <<>>

\* C22: a record that ends skipped leaves vectorChunks unchanged for its id
\* and is not counted as synced: the step that skips it changes neither the
\* collection nor synced_count, the collection changes and synced_count
\* grows only in the write step that completes a record, and therefore the
\* document under the id of a skipped record, present or absent, is the one
\* the run started with.
C22_SkipLeavesStore ==
    /\ [](prog = "sync" =>
            /\ \A p \in skipped :
                 DocAt(vc, FirestoreDocId(results[p].id, p))
                   = DocAt(vc0, FirestoreDocId(results[p].id, p))
            /\ synced_count = Cardinality(created \cup updated)
            /\ \A p \in skipped :
                 FirestoreDocId(results[p].id, p) \notin created \cup updated)
    /\ [][prog = "sync" =>
            /\ skipped' # skipped /\ sy_run' = sy_run =>
                 vc' = vc /\ synced_count' = synced_count
            /\ vc' # vc \/ synced_count' > synced_count =>
                 /\ sy_pc = "write" /\ sy_i' = sy_i + 1
                 /\ skipped' = skipped
                 /\ synced_count' = synced_count + 1
                 /\ \A id \in (DOMAIN vc \cup DOMAIN vc') \ {firestore_doc.id} :
                      DocAt(vc', id) = DocAt(vc, id)]_vars

\* C22 witness: at the summary one record was skipped whose document was
\* present before the run and one whose document was absent, after a failed
\* update and a failed set, and another record was synced.
C22_Witness ==
    /\ AtSummary
    /\ \E p, q \in skipped :
          /\ FirestoreDocId(results[p].id, p) \in DOMAIN vc0
          /\ FirestoreDocId(results[q].id, q) \notin DOMAIN vc0
          /\ \E a, b \in 1..Len(calls) :
                /\ calls[a] = Call("update", p, FALSE, TRUE)
                /\ calls[b] = Call("set", q, FALSE, FALSE)
    /\ synced_count >= 1

---------------------------------------------------------------------------
(* The documents of vectorChunks a sync run does not touch *)

\* the documents of vectorChunks whose id no ChromaDB record has
Orphans == DOMAIN vc \ {chroma[j].id : j \in 1..Len(chroma)}

\* C23: a sync run writes only vectorChunks documents whose key is the id
\* of a record it enumerated from ChromaDB; every document under another key
\* is what it was when the run started, no document is ever deleted, and no
\* step of any run changes or removes a document under another key than the
\* one of the record being written, so orphaned documents persist across
\* runs.
C23_OnlyEnumeratedKeys ==
    /\ [](prog = "sync" =>
            /\ created \cup updated \subseteq PrimaryIds
            /\ DOMAIN vc0 \subseteq DOMAIN vc
            /\ DOMAIN vc \ DOMAIN vc0 \subseteq PrimaryIds
            /\ \A id \in DOMAIN vc \ PrimaryIds : vc[id] = vc0[id])
    /\ [][prog = "sync" =>
            /\ DOMAIN vc \subseteq DOMAIN vc'
            /\ vc' # vc =>
                 /\ firestore_doc.id \in PrimaryIds
                 /\ DOMAIN vc' \subseteq DOMAIN vc \cup {firestore_doc.id}
                 /\ \A id \in DOMAIN vc \ {firestore_doc.id} :
                      vc'[id] = vc[id]]_vars

\* C23 witness: at the summary of a second run that followed a run with a
\* created and an updated record, a document whose id no ChromaDB record has
\* is still the one stored before the first run.
C23_Witness ==
    /\ AtSummary /\ sy_run = 2
    /\ prev[1].created # {} /\ prev[1].updated # {}
    /\ updated # {}
    /\ \E id \in Orphans : vc[id] = StaleFields(id)

---------------------------------------------------------------------------
(* Chunk ids of different documents *)

\* C24: the chunk ids computed for two different blobs are different
\* whatever the chunk indices, so the records a run upserted for one blob
\* are not overwritten by the upsert of another blob: they still carry the
\* name of the blob they were written for.
C24_IdsUniquePerDocument ==
    prog = "ingest" =>
      \A j1, j2 \in 1..Len(in_upserts) :
        in_upserts[j1].blob # in_upserts[j2].blob =>
          /\ SeqRange(in_upserts[j1].ids) \cap SeqRange(in_upserts[j2].ids) = {}
          /\ \A k \in SeqRange(in_upserts[j1].ids) :
               pdf_documents[k].metadata.gcs_blob_name
                 = BlobName(in_upserts[j1].blob)

---------------------------------------------------------------------------
(* The writes of a store_in_firestore call that returned *)

\* the writes of the commits of document d, one commit after the other
CommittedWrites(d) == ConcatRange(committed[d], 1, Len(committed[d]))

\* "chunk_" followed by i as four decimal digits (i < 10000)
PaddedKey(i) ==
    <<"chunk_", i \div 1000, (i \div 100) % 10, (i \div 10) % 10, i % 10>>

\* C25: when store_in_firestore has returned for N chunks with N
\* embeddings, the committed batches taken together hold the chunk indices
\* 0..N-1 once each and in increasing order, each under the key chunk_ plus
\* the index padded to four digits, no write is outside a committed batch,
\* the chunks subcollection holds exactly these N records, and the
\* total_chunks of the metadata record is that number.
C25_AllWritesCommitted ==
    \A d \in StoreReturned :
        LET name == documents[d].name
            flat == CommittedWrites(d)
        IN /\ Len(flat) = store_n[d]
           /\ \A j \in 1..Len(flat) :
                flat[j] = [key |-> PaddedKey(j - 1), chunk_index |-> j - 1]
           /\ Len(committed[d]) = Len(commits[d])
           /\ \A j \in 1..Len(commits[d]) : Len(committed[d][j]) = commits[d][j]
           /\ DOMAIN fs_chunks[name] = {flat[j].key : j \in 1..Len(flat)}
           /\ \A j \in 1..Len(flat) :
                fs_chunks[name][flat[j].key].chunk_index = j - 1
           /\ name \in DOMAIN fs_meta /\ fs_meta[name].total_chunks = Len(flat)
           /\ Cardinality(DOMAIN fs_chunks[name]) = Len(flat)
           /\ (d = doc_idx /\ pd_pc = "stored") =>
                store_i = Len(flat) /\ Len(chunks) = Len(flat)

\* C25 witness: a call for 1001 chunks returned after three commits, the
\* last one holding the single write of chunk_1000.
C25_Witness ==
    \E d \in StoreReturned :
        /\ Len(committed[d]) = MaxFullBatches + 1
        /\ committed[d][MaxFullBatches + 1]
             = <<[key |-> PaddedKey(MaxFullBatches * BatchLimit),
                  chunk_index |-> MaxFullBatches * BatchLimit]>>
        /\ store_n[d] = MaxFullBatches * BatchLimit + 1

=============================================================================
